---- MODULE Spec2Model ----
(***************************************************************************)
(* Model of src/tenhou/log.rs: the conversion of a tenhou.net/6 RawLog     *)
(* into a Log (Log::try_from) and the in-place round filter                *)
(* (Log::filter_kyokus).                                                   *)
(*                                                                         *)
(* A String is a sequence of one-character strings, so that                *)
(* str::contains is a real substring search.  A serde_json Number keeps    *)
(* its three representations (PosInt, NegInt, Float); a Float carries its  *)
(* value in halves (v = 3 is 1.5).                                         *)
(***************************************************************************)
EXTENDS Integers, Sequences, FiniteSets, TLC

VARIABLES raw, kyoku_filter, pc, i, game_length, has_aka, kyokus, ret, log, before

vars == <<raw, kyoku_filter, pc, i, game_length, has_aka, kyokus, ret, log, before>>

(***************************************************************************)
(* Bounds of the model.                                                    *)
(***************************************************************************)
\* fragments concatenated into rule.disp
MaxFrags == 2
\* elements of one round's result array
MaxResults == 5
\* round entries of a document (filter family)
MaxRounds == 3

(***************************************************************************)
(* Integer widths.                                                         *)
(***************************************************************************)
\* HoraDetail.who / HoraDetail.target are u8
U8Bits == 8
\* Rule.aka, aka51, aka52, aka53 (json_scheme): 8-bit unsigned
AkaBits == 8

(***************************************************************************)
(* Strings.                                                                *)
(***************************************************************************)
\* str::contains(pat): pat occurs in hay as a contiguous run
Contains(hay, pat) ==
    \E k \in 0..(Len(hay) - Len(pat)) : SubSeq(hay, k + 1, k + Len(pat)) = pat

\* a non-ASCII character is written as its code point: U+56DB, U+6771, U+4E09
FOUR_CHAR == <<"U+56DB">>
FOUR_STR == <<"4", "-", "P", "l", "a", "y", "e", "r">>
EAST_CHAR == <<"U+6771">>
EAST_STR == <<"E", "a", "s", "t">>

\* the status text of a win (U+548C U+4E86); a status text is compared whole
HORA_TAG == "U+548C U+4E86"

\* IsFourPlayer without its second test
IsFourPlayerCharOnly(disp) == Contains(disp, FOUR_CHAR)

\* if rule.disp.contains(U+56DB) || rule.disp.contains("4-Player")
IsFourPlayer(disp) == Contains(disp, FOUR_CHAR) \/ Contains(disp, FOUR_STR)

\* IsTonpuu without its second test
IsTonpuuCharOnly(disp) == Contains(disp, EAST_CHAR)

\* if rule.disp.contains(U+6771) || rule.disp.contains("East")
IsTonpuu(disp) == Contains(disp, EAST_CHAR) \/ Contains(disp, EAST_STR)

GameLengthOf(disp) == IF IsTonpuu(disp) THEN "Tonpuu" ELSE "Hanchan"

(***************************************************************************)
(* rule.aka + rule.aka51 + rule.aka52 + rule.aka53 > 0, in the fields'     *)
(* integer type: the sum is evaluated left to right; an addition that      *)
(* leaves the type's range aborts the program when overflow checks are on  *)
(* and wraps when they are off.                                            *)
(***************************************************************************)
AkaFields(rule) == <<rule.aka, rule.aka51, rule.aka52, rule.aka53>>

WrappingAdd(a, b) == (a + b) % (2 ^ AkaBits)

AddOverflows(a, b) == a + b >= 2 ^ AkaBits

RECURSIVE WrappingSum(_, _)
WrappingSum(fs, acc) ==
    IF fs = <<>> THEN acc ELSE WrappingSum(Tail(fs), WrappingAdd(acc, Head(fs)))

RECURSIVE SumOverflows(_, _)
SumOverflows(fs, acc) ==
    IF fs = <<>> THEN FALSE
    ELSE AddOverflows(acc, Head(fs)) \/ SumOverflows(Tail(fs), WrappingAdd(acc, Head(fs)))

AkaSum(rule) == WrappingSum(Tail(AkaFields(rule)), Head(AkaFields(rule)))

AkaOverflows(rule) == SumOverflows(Tail(AkaFields(rule)), Head(AkaFields(rule)))

HasAka(rule) == AkaSum(rule) > 0

(***************************************************************************)
(* Result items and JSON values.                                           *)
(***************************************************************************)
Status(text) == [tag |-> "Status", text |-> text]
ScoreDeltas(d) == [tag |-> "ScoreDeltas", d |-> d]
HoraDetailItem(v) == [tag |-> "HoraDetail", v |-> v]

PosInt(n) == [kind |-> "Number", n |-> "PosInt", v |-> n, s |-> ""]
NegInt(n) == [kind |-> "Number", n |-> "NegInt", v |-> n, s |-> ""]
Float(halves) == [kind |-> "Number", n |-> "Float", v |-> halves, s |-> ""]
Str(s) == [kind |-> "String", n |-> "-", v |-> 0, s |-> s]

\* [0; 4]
ZeroDeltas == <<0, 0, 0, 0>>

\* Number::as_u64: Some for a PosInt, None for a NegInt or a Float
\* .unwrap_or(0)
AsU64OrZero(val) == IF val.n = "PosInt" THEN val.v ELSE 0

\* as u8
AsU8(n) == n % (2 ^ U8Bits)

\* who_target_tuple.first() / .get(1): Some(Value::Number(n))
IsNumberAt(tuple, k) == Len(tuple) >= k /\ tuple[k].kind = "Number"

\* n.as_u64().unwrap_or(0) as u8
SeatOf(val) == AsU8(AsU64OrZero(val))

\* HoraDetail with who and target exchanged
HoraDetailSwapped(who, target, score_deltas) ==
    [who |-> target, target |-> who, score_deltas |-> score_deltas]

HoraDetail(who, target, score_deltas) ==
    [who |-> who, target |-> target, score_deltas |-> score_deltas]

Hora(details) == [tag |-> "Hora", details |-> details, score_deltas |-> ZeroDeltas]
\* Ryukyoku that keeps the default deltas
RyukyokuDefault(score_deltas) == [tag |-> "Ryukyoku", details |-> <<>>, score_deltas |-> ZeroDeltas]
Ryukyoku(score_deltas) == [tag |-> "Ryukyoku", details |-> <<>>, score_deltas |-> score_deltas]

\* if let [ResultItem::ScoreDeltas(..), ResultItem::HoraDetail(..)] = detail_tuple
IsDetailTuple(a, b) == a.tag = "ScoreDeltas" /\ b.tag = "HoraDetail"

(***************************************************************************)
(* for detail_tuple in log.results[1..].chunks_exact(2): rest is what is   *)
(* left of results[1..], details the vector built so far.  The value is    *)
(* [err, details]: err when the loop returns Err(InvalidHoraDetail).       *)
(***************************************************************************)
RECURSIVE HoraDetails(_, _)
HoraDetails(rest, details) ==
    IF Len(rest) < 2 THEN [err |-> FALSE, details |-> details]
    ELSE IF IsDetailTuple(rest[1], rest[2])
         THEN IF IsNumberAt(rest[2].v, 1) /\ IsNumberAt(rest[2].v, 2)
              THEN HoraDetails(SubSeq(rest, 3, Len(rest)),
                               Append(details, HoraDetail(SeatOf(rest[2].v[1]),
                                                          SeatOf(rest[2].v[2]),
                                                          rest[1].d)))
              ELSE [err |-> TRUE, details |-> <<>>]
         ELSE HoraDetails(SubSeq(rest, 3, Len(rest)), details)

\* the classification of one round's result array (lines 131-171):
\* [err, end_status]
EndStatusOf(results) ==
    IF results # <<>> /\ results[1].tag = "Status"
    THEN IF results[1].text = HORA_TAG
         THEN LET r == HoraDetails(Tail(results), <<>>)
              IN  [err |-> r.err, end_status |-> Hora(r.details)]
         ELSE [err |-> FALSE,
               end_status |-> Ryukyoku(IF Len(results) >= 2 /\ results[2].tag = "ScoreDeltas"
                                       THEN results[2].d ELSE ZeroDeltas)]
    ELSE [err |-> FALSE, end_status |-> Ryukyoku(ZeroDeltas)]

ActionTable(haipai, takes, discards) ==
    [haipai |-> haipai, takes |-> takes, discards |-> discards]

\* ActionTables with seat 1 copied from seat 0
ActionTablesCopied(entry) ==
    << ActionTable(entry.haipai_0, entry.takes_0, entry.discards_0),
       ActionTable(entry.haipai_0, entry.takes_0, entry.discards_0),
       ActionTable(entry.haipai_2, entry.takes_2, entry.discards_2),
       ActionTable(entry.haipai_3, entry.takes_3, entry.discards_3) >>

ActionTables(entry) ==
    << ActionTable(entry.haipai_0, entry.takes_0, entry.discards_0),
       ActionTable(entry.haipai_1, entry.takes_1, entry.discards_1),
       ActionTable(entry.haipai_2, entry.takes_2, entry.discards_2),
       ActionTable(entry.haipai_3, entry.takes_3, entry.discards_3) >>

\* let mut kyoku = Kyoku { .. }; kyoku.end_status = ..
Kyoku(entry, end_status) ==
    [meta |-> entry.meta,
     scoreboard |-> entry.scoreboard,
     dora_indicators |-> entry.dora_indicators,
     ura_indicators |-> entry.ura_indicators,
     action_tables |-> ActionTables(entry),
     end_status |-> end_status]

\* KyokuFilter::test(kyoku_num, honba): the filter is the set of pairs it accepts
Test(f, kyoku_num, honba) == <<kyoku_num, honba>> \in f

\* Retain with the closure's answer inverted
RECURSIVE RetainRejected(_, _)
RetainRejected(ks, f) ==
    IF ks = <<>> THEN <<>>
    ELSE IF ~Test(f, Head(ks).meta.kyoku_num, Head(ks).meta.honba)
         THEN <<Head(ks)>> \o RetainRejected(Tail(ks), f)
         ELSE RetainRejected(Tail(ks), f)

\* Vec::retain: the elements the closure accepts, visited front to back
RECURSIVE Retain(_, _)
Retain(ks, f) ==
    IF ks = <<>> THEN <<>>
    ELSE IF Test(f, Head(ks).meta.kyoku_num, Head(ks).meta.honba)
         THEN <<Head(ks)>> \o Retain(Tail(ks), f)
         ELSE Retain(Tail(ks), f)

NoLog == [names |-> <<>>, game_length |-> "-", has_aka |-> FALSE, kyokus |-> <<>>]

(***************************************************************************)
(* Raw documents.                                                          *)
(***************************************************************************)
Rule(disp, akas) ==
    [disp |-> disp, aka |-> akas[1], aka51 |-> akas[2], aka52 |-> akas[3], aka53 |-> akas[4]]

RawLog(logs, names, rule) == [logs |-> logs, names |-> names, rule |-> rule]

\* one raw round entry; deal k gives every seat's three lists distinct contents
RawEntry(meta, k, results) ==
    [meta |-> [kyoku_num |-> meta[1], honba |-> meta[2]],
     scoreboard |-> <<35000 - k, 35000, 35000 + k, 0>>,
     dora_indicators |-> <<30 + k>>,
     ura_indicators |-> <<>>,
     haipai_0 |-> <<k, 11>>, takes_0 |-> <<k, 12>>, discards_0 |-> <<k, 13>>,
     haipai_1 |-> <<k, 21>>, takes_1 |-> <<k, 22>>, discards_1 |-> <<k, 23>>,
     haipai_2 |-> <<k, 31>>, takes_2 |-> <<k, 32>>, discards_2 |-> <<k, 33>>,
     haipai_3 |-> <<>>, takes_3 |-> <<>>, discards_3 |-> <<>>,
     results |-> results]

RECURSIVE Flatten(_)
Flatten(ss) == IF ss = <<>> THEN <<>> ELSE Head(ss) \o Flatten(Tail(ss))

SeqsUpTo(S, n) == UNION {[1..k -> S] : k \in 0..n}

\* pieces of descriptor texts: the markers, halves of the ASCII markers, U+4E09
Fragments ==
    { FOUR_CHAR, EAST_CHAR, <<"U+4E09">>, FOUR_STR, EAST_STR,
      <<"4", "-">>, <<"P", "l", "a", "y", "e", "r">>, <<"E", "a">>, <<"s", "t">> }

Disps == {Flatten(fs) : fs \in SeqsUpTo(Fragments, MaxFrags)}

SANMA == <<"U+4E09">>

D1 == <<1000, -1000, 0, 0>>
D2 == <<-8000, 0, 8000, 0>>

RYUKYOKU_TAG == "U+6D41 U+5C40"

GoodDetail == HoraDetailItem(<<PosInt(0), PosInt(1), Str("yaku")>>)
BadDetail == HoraDetailItem(<<Str("x"), PosInt(1)>>)

WinResults == <<Status(HORA_TAG), ScoreDeltas(D1), GoodDetail>>
BadResults == <<Status(HORA_TAG), ScoreDeltas(D1), BadDetail>>
DrawResults == <<Status(RYUKYOKU_TAG), ScoreDeltas(D2)>>

Names == <<"mtk", "tsukunen3", "higuo3", "">>

Metas == {<<0, 0>>, <<0, 1>>, <<1, 0>>}

KyokuFilters == SUBSET Metas

NoAka == <<0, 0, 0, 0>>

\* values an aka field takes: the ends of the type's range and its small values
AkaVals == {0, 1, 2, 2 ^ AkaBits - 1}

\* the items a result array is made of (shape family)
ShapeItems ==
    { Status(HORA_TAG), Status(RYUKYOKU_TAG), ScoreDeltas(D1), GoodDetail, BadDetail }

\* the entries of a seat descriptor (seat family)
SeatVals == { PosInt(0), PosInt(1), PosInt(255), PosInt(257), NegInt(-1), Float(3), Str("x") }

SeatDescriptors ==
    SeqsUpTo(SeatVals, 2) \cup {<<a, b, Str("yaku")>> : a \in SeatVals, b \in SeatVals}

DetailPairs == {<<ScoreDeltas(d), HoraDetailItem(t)>> : d \in {D1, D2}, t \in SeatDescriptors}

\* a win tag followed by whole pairs, at most MaxResults elements in all
WinArrays ==
    {<<Status(HORA_TAG)>> \o Flatten(ps) : ps \in SeqsUpTo(DetailPairs, (MaxResults - 1) \div 2)}

TypeOK == pc \in {"start", "loop", "returned", "panicked", "done", "filtered"}

Start(doc, f) ==
    /\ raw = doc
    /\ kyoku_filter = f
    /\ pc = "start"
    /\ i = 0
    /\ game_length = "-"
    /\ has_aka = FALSE
    /\ kyokus = <<>>
    /\ ret = "Pending"
    /\ log = NoLog
    /\ before = NoLog

\* descriptor texts against a few rule flags and round lists
InitRule ==
    \E disp \in Disps, akas \in {NoAka, <<0, 1, 1, 1>>, <<255, 1, 0, 0>>},
       logs \in {<<>>, <<RawEntry(<<0, 0>>, 1, WinResults)>>, <<RawEntry(<<0, 0>>, 1, BadResults)>>} :
        Start(RawLog(logs, Names, Rule(disp, akas)), Metas)

\* every combination of the aka fields
InitAka ==
    \E akas \in [1..4 -> AkaVals], disp \in {SANMA, SANMA \o EAST_CHAR} :
        Start(RawLog(<<RawEntry(<<0, 0>>, 1, WinResults)>>, Names, Rule(disp, akas)), Metas)

\* every result array of at most MaxResults items, alone or after a win round
InitShape ==
    \E results \in SeqsUpTo(ShapeItems, MaxResults), lead \in {<<>>, <<RawEntry(<<0, 0>>, 1, WinResults)>>} :
        Start(RawLog(lead \o <<RawEntry(<<0, 1>>, 2, results)>>, Names, Rule(SANMA, NoAka)), Metas)

\* every win array of whole pairs over the seat descriptors
InitSeat ==
    \E results \in WinArrays :
        Start(RawLog(<<RawEntry(<<0, 0>>, 1, results)>>, Names, Rule(SANMA, NoAka)), Metas)

\* every round list of at most MaxRounds entries against every filter
InitFilter ==
    \E ms \in SeqsUpTo(Metas \X {WinResults, DrawResults}, MaxRounds), f \in KyokuFilters,
       names \in {Names, <<"", "a", "", "b">>} :
        Start(RawLog([j \in 1..Len(ms) |-> RawEntry(ms[j][1], j, ms[j][2])], names,
                     Rule(SANMA, <<0, 1, 1, 1>>)), f)

Init == InitRule \/ InitAka \/ InitShape \/ InitSeat \/ InitFilter

(***************************************************************************)
(* Log::try_from.                                                          *)
(***************************************************************************)
\* lines 92-94: return Err(ParseError::NotThreePlayer)
RejectFourPlayer ==
    /\ pc = "start"
    /\ IsFourPlayer(raw.rule.disp)
    /\ ret' = "NotThreePlayer"
    /\ pc' = "returned"
    /\ UNCHANGED <<raw, kyoku_filter, i, game_length, has_aka, kyokus, log, before>>

\* lines 95-102: game_length, has_aka and the empty kyokus vector; an
\* overflowing sum wraps here (overflow checks off)
DeriveRule ==
    /\ pc = "start"
    /\ ~IsFourPlayer(raw.rule.disp)
    /\ game_length' = GameLengthOf(raw.rule.disp)
    /\ has_aka' = HasAka(raw.rule)
    /\ kyokus' = <<>>
    /\ pc' = "loop"
    /\ UNCHANGED <<raw, kyoku_filter, i, ret, log, before>>

\* lines 95-100 with overflow checks on: the overflowing addition panics
AkaOverflowPanic ==
    /\ pc = "start"
    /\ ~IsFourPlayer(raw.rule.disp)
    /\ AkaOverflows(raw.rule)
    /\ game_length' = GameLengthOf(raw.rule.disp)
    /\ ret' = "Panic"
    /\ pc' = "panicked"
    /\ UNCHANGED <<raw, kyoku_filter, i, has_aka, kyokus, log, before>>

\* lines 103-173: one pass of the loop body that pushes a kyoku
ConvertKyoku ==
    /\ pc = "loop"
    /\ i < Len(raw.logs)
    /\ LET entry == raw.logs[i + 1]
           r == EndStatusOf(entry.results)
       IN  /\ ~r.err
           /\ kyokus' = Append(kyokus, Kyoku(entry, r.end_status))
    /\ i' = i + 1
    /\ UNCHANGED <<raw, kyoku_filter, pc, game_length, has_aka, ret, log, before>>

\* lines 146, 151: return Err(ParseError::InvalidHoraDetail)
ReturnInvalidHoraDetail ==
    /\ pc = "loop"
    /\ i < Len(raw.logs)
    /\ EndStatusOf(raw.logs[i + 1].results).err
    /\ ret' = "InvalidHoraDetail"
    /\ pc' = "returned"
    /\ UNCHANGED <<raw, kyoku_filter, i, game_length, has_aka, kyokus, log, before>>

\* lines 176-181: Ok(Self { names, game_length, has_aka, kyokus })
ReturnOk ==
    /\ pc = "loop"
    /\ i = Len(raw.logs)
    /\ log' = [names |-> raw.names, game_length |-> game_length,
               has_aka |-> has_aka, kyokus |-> kyokus]
    /\ ret' = "Ok"
    /\ pc' = "done"
    /\ UNCHANGED <<raw, kyoku_filter, i, game_length, has_aka, kyokus, before>>

(***************************************************************************)
(* Log::filter_kyokus on the Log try_from returned; before is the Log as   *)
(* it was when the call was made.                                          *)
(***************************************************************************)
filter_kyokus ==
    /\ pc \in {"done", "filtered"}
    /\ before' = log
    /\ log' = [log EXCEPT !.kyokus = Retain(log.kyokus, kyoku_filter)]
    /\ pc' = "filtered"
    /\ UNCHANGED <<raw, kyoku_filter, i, game_length, has_aka, kyokus, ret>>

Next ==
    \/ RejectFourPlayer
    \/ DeriveRule
    \/ AkaOverflowPanic
    \/ ConvertKyoku
    \/ ReturnInvalidHoraDetail
    \/ ReturnOk
    \/ filter_kyokus

Spec == Init /\ [][Next]_vars

(***************************************************************************)
(* What the claims speak of, stated on the raw document alone.             *)
(***************************************************************************)
\* pat occurs in text at some position
Occurs(text, pat) ==
    \E j \in 1..(Len(text) + 1) :
        \A m \in 1..Len(pat) : j + m - 1 <= Len(text) /\ text[j + m - 1] = pat[m]

FourMarker(text) == Occurs(text, <<"U+56DB">>) \/ Occurs(text, <<"4", "-", "P", "l", "a", "y", "e", "r">>)

EastMarker(text) == Occurs(text, <<"U+6771">>) \/ Occurs(text, <<"E", "a", "s", "t">>)

ExpectedLength(text) == IF EastMarker(text) THEN "Tonpuu" ELSE "Hanchan"

WinTagged(results) ==
    Len(results) >= 1 /\ results[1].tag = "Status" /\ results[1].text = "U+548C U+4E86"

\* the pairs after the tag: pair p is elements 2p-1 and 2p of the array counted from 0
PairCount(results) == (Len(results) - 1) \div 2
PairDeltas(results, p) == results[2 * p]
PairSeats(results, p) == results[2 * p + 1]

IsNumeric(tuple, k) == Len(tuple) >= k /\ tuple[k].kind = "Number"

\* (score-delta array, seat descriptor whose first two entries are numbers)
PairShaped(a, b) ==
    a.tag = "ScoreDeltas" /\ b.tag = "HoraDetail" /\ IsNumeric(b.v, 1) /\ IsNumeric(b.v, 2)

\* a number that is a seat index as written: a non-negative integer of 8 bits
IsSeatIndex(val) == val.kind = "Number" /\ val.n = "PosInt" /\ val.v >= 0 /\ val.v <= 255

\* (score-delta array, [w, t, ...]) with w and t seat indices
PairWellFormed(a, b) ==
    /\ a.tag = "ScoreDeltas" /\ b.tag = "HoraDetail"
    /\ Len(b.v) >= 2 /\ IsSeatIndex(b.v[1]) /\ IsSeatIndex(b.v[2])

\* the win tag followed by whole pairs of the (ScoreDeltas, HoraDetail) kinds
WinOfPairs(results) ==
    /\ WinTagged(results)
    /\ Len(results) = 1 + 2 * PairCount(results)
    /\ \A p \in 1..PairCount(results) :
           PairDeltas(results, p).tag = "ScoreDeltas" /\ PairSeats(results, p).tag = "HoraDetail"

\* the win tag followed by k >= 1 well-formed pairs and nothing else
WellFormedWin(results) ==
    /\ WinOfPairs(results)
    /\ PairCount(results) >= 1
    /\ \A p \in 1..PairCount(results) : PairWellFormed(PairDeltas(results, p), PairSeats(results, p))

HasMalformedPair(results) ==
    /\ WinTagged(results)
    /\ \E p \in 1..PairCount(results) : ~PairShaped(PairDeltas(results, p), PairSeats(results, p))

\* the rounds try_from has converted so far; all of them once it returned Ok
Converted == 1..Len(kyokus)

MathAkaSum == raw.rule.aka + raw.rule.aka51 + raw.rule.aka52 + raw.rule.aka53

(***************************************************************************)
(* C1: a document with a win-tagged round that holds a pair not of the     *)
(* shape (score deltas, seat descriptor with two leading numbers) is never *)
(* converted: try_from does not return Ok, and no such round is pushed.    *)
(* (The code skips a pair of the wrong kinds.)                             *)
(***************************************************************************)
C1_NoMalformedPairAccepted ==
    /\ \A j \in Converted : ~HasMalformedPair(raw.logs[j].results)
    /\ ret = "Ok" => \A j \in 1..Len(raw.logs) : ~HasMalformedPair(raw.logs[j].results)

(***************************************************************************)
(* C2: a descriptor text with a 4-participant marker makes try_from return *)
(* NotThreePlayer with no round processed, whatever the rounds hold.       *)
(***************************************************************************)
C2_FourPlayerRejectedFirst ==
    (FourMarker(raw.rule.disp) /\ pc # "start") =>
        /\ pc = "returned"
        /\ ret = "NotThreePlayer"
        /\ i = 0
        /\ kyokus = <<>>
        /\ log = NoLog

C2_Witness ==
    /\ pc = "returned"
    /\ ret = "NotThreePlayer"
    /\ Occurs(raw.rule.disp, <<"4", "-", "P", "l", "a", "y", "e", "r">>)
    /\ ~Occurs(raw.rule.disp, <<"U+56DB">>)
    /\ Len(raw.logs) = 1
    /\ HasMalformedPair(raw.logs[1].results)

(***************************************************************************)
(* C3: a round whose result array is the win tag followed by k >= 1        *)
(* well-formed pairs is converted (never rejected) to Hora with exactly k  *)
(* details, the p-th being {who: w_p, target: t_p, score_deltas: d_p}.     *)
(***************************************************************************)
C3_WinDetailsInOrder ==
    /\ \A j \in Converted :
           LET results == raw.logs[j].results
               es == kyokus[j].end_status
           IN  WellFormedWin(results) =>
                   /\ es.tag = "Hora"
                   /\ Len(es.details) = PairCount(results)
                   /\ \A p \in 1..PairCount(results) :
                          /\ es.details[p].who = PairSeats(results, p).v[1].v
                          /\ es.details[p].target = PairSeats(results, p).v[2].v
                          /\ es.details[p].score_deltas = PairDeltas(results, p).d
    /\ (pc = "returned" /\ ret = "InvalidHoraDetail") => ~WellFormedWin(raw.logs[i + 1].results)
    /\ pc = "done" => (ret = "Ok" /\ log.kyokus = kyokus)

C3_Witness ==
    /\ ret = "Ok" /\ pc = "done"
    /\ Len(log.kyokus) = 1
    /\ WellFormedWin(raw.logs[1].results)
    /\ PairCount(raw.logs[1].results) = 2
    /\ Len(log.kyokus[1].end_status.details) = 2
    /\ log.kyokus[1].end_status.details[1].score_deltas # log.kyokus[1].end_status.details[2].score_deltas
    /\ log.kyokus[1].end_status.details[1].who = 255
    /\ log.kyokus[1].end_status.details[1].target = 1
    /\ log.kyokus[1].end_status.details[2].who = 0

(***************************************************************************)
(* C4 as claimed: a converted round whose result array is empty or does    *)
(* not start with the win tag ends in Ryukyoku with the score deltas found *)
(* at position 1, all zero when there are none.                            *)
(***************************************************************************)
DeltasAtOne(results) ==
    IF Len(results) >= 2 /\ results[2].tag = "ScoreDeltas" THEN results[2].d ELSE <<0, 0, 0, 0>>

C4_Original ==
    \A j \in Converted :
        ~WinTagged(raw.logs[j].results) =>
            /\ kyokus[j].end_status.tag = "Ryukyoku"
            /\ kyokus[j].end_status.score_deltas = DeltasAtOne(raw.logs[j].results)

(***************************************************************************)
(* C4 amended: the score deltas at position 1 are taken only when the      *)
(* first element is a status string (other than the win tag); an empty     *)
(* array, and an array whose first element is not a status string, end in  *)
(* Ryukyoku with all-zero deltas whatever stands at position 1.  Such a    *)
(* round is never rejected.                                                *)
(***************************************************************************)
C4_Amended ==
    /\ \A j \in Converted :
           LET results == raw.logs[j].results
           IN  ~WinTagged(results) =>
                   /\ kyokus[j].end_status.tag = "Ryukyoku"
                   /\ kyokus[j].end_status.score_deltas =
                          IF Len(results) >= 1 /\ results[1].tag = "Status"
                          THEN DeltasAtOne(results) ELSE <<0, 0, 0, 0>>
    /\ (pc = "returned" /\ ret = "InvalidHoraDetail") => WinTagged(raw.logs[i + 1].results)

C4_Witness ==
    /\ ret = "Ok" /\ pc = "done"
    /\ Len(raw.logs) = 1
    /\ Len(raw.logs[1].results) = 2
    /\ raw.logs[1].results[1].tag = "Status"
    /\ ~WinTagged(raw.logs[1].results)
    /\ raw.logs[1].results[2].tag = "ScoreDeltas"
    /\ log.kyokus[1].end_status.tag = "Ryukyoku"
    /\ log.kyokus[1].end_status.score_deltas = raw.logs[1].results[2].d
    /\ log.kyokus[1].end_status.score_deltas # <<0, 0, 0, 0>>

(***************************************************************************)
(* C5: after try_from returned Ok, every round that ended in Hora holds    *)
(* at least one detail.  (The code returns Hora with no details for a win  *)
(* tag without a matching pair.)                                           *)
(***************************************************************************)
C5_HoraHasDetails ==
    ret = "Ok" =>
        \A j \in 1..Len(log.kyokus) :
            log.kyokus[j].end_status.tag = "Hora" => log.kyokus[j].end_status.details # <<>>

(***************************************************************************)
(* C6: after filter_kyokus the rounds are exactly those of the previous    *)
(* rounds the predicate accepts, in their order and unchanged; names,      *)
(* game_length and has_aka are as before; the call cannot fail.            *)
(***************************************************************************)
Accepted(k) == <<k.meta.kyoku_num, k.meta.honba>> \in kyoku_filter

C6_FilterIsSubsequence ==
    pc = "filtered" =>
        /\ log.kyokus = SelectSeq(before.kyokus, Accepted)
        /\ log.names = before.names
        /\ log.game_length = before.game_length
        /\ log.has_aka = before.has_aka
        /\ ret = "Ok"

C6_Witness ==
    /\ pc = "filtered"
    /\ Len(before.kyokus) = 3
    /\ log.kyokus = <<before.kyokus[1], before.kyokus[3]>>
    /\ before.kyokus[1].meta = before.kyokus[3].meta
    /\ before.kyokus[1] # before.kyokus[3]

(***************************************************************************)
(* C7: when try_from returns Ok the Log has one round per raw entry, the   *)
(* j-th built from the j-th entry, each with 4 action tables where table s *)
(* holds haipai_s, takes_s and discards_s, and the 4 raw names in order.   *)
(***************************************************************************)
C7_RoundsAndNamesPreserved ==
    (ret = "Ok" /\ pc = "done") =>
        /\ Len(log.kyokus) = Len(raw.logs)
        /\ \A j \in 1..Len(raw.logs) :
               LET e == raw.logs[j]
                   t == log.kyokus[j].action_tables
               IN  /\ log.kyokus[j].meta = e.meta
                   /\ log.kyokus[j].scoreboard = e.scoreboard
                   /\ log.kyokus[j].dora_indicators = e.dora_indicators
                   /\ log.kyokus[j].ura_indicators = e.ura_indicators
                   /\ Len(t) = 4
                   /\ t[1].haipai = e.haipai_0 /\ t[1].takes = e.takes_0 /\ t[1].discards = e.discards_0
                   /\ t[2].haipai = e.haipai_1 /\ t[2].takes = e.takes_1 /\ t[2].discards = e.discards_1
                   /\ t[3].haipai = e.haipai_2 /\ t[3].takes = e.takes_2 /\ t[3].discards = e.discards_2
                   /\ t[4].haipai = e.haipai_3 /\ t[4].takes = e.takes_3 /\ t[4].discards = e.discards_3
        /\ Len(log.names) = 4
        /\ log.names = raw.names

C7_Witness ==
    /\ ret = "Ok" /\ pc = "done"
    /\ Len(raw.logs) = 3
    /\ Len(log.kyokus) = 3
    /\ log.kyokus[1].action_tables # log.kyokus[2].action_tables
    /\ log.kyokus[2].action_tables # log.kyokus[3].action_tables
    /\ log.names[1] = "" /\ log.names[2] # ""

(***************************************************************************)
(* C8 as claimed: whatever else the descriptor text holds, the game length *)
(* try_from derives from it is Tonpuu with an East-only marker and Hanchan *)
(* without one.                                                            *)
(***************************************************************************)
C8_Original == pc # "start" => game_length = ExpectedLength(raw.rule.disp)

(***************************************************************************)
(* C8 amended: for a descriptor text without a 4-participant marker the    *)
(* game length is Tonpuu with an East-only marker and Hanchan without one, *)
(* and the Log returned carries it; with a 4-participant marker try_from   *)
(* returns before any game length is derived.                              *)
(***************************************************************************)
C8_Amended ==
    /\ (pc # "start" /\ ~FourMarker(raw.rule.disp)) => game_length = ExpectedLength(raw.rule.disp)
    /\ ret = "Ok" => log.game_length = ExpectedLength(raw.rule.disp)
    /\ (pc # "start" /\ FourMarker(raw.rule.disp)) => game_length = "-"

C8_Witness ==
    /\ ret = "Ok"
    /\ log.game_length = "Tonpuu"
    /\ Occurs(raw.rule.disp, <<"E", "a", "s", "t">>)
    /\ ~Occurs(raw.rule.disp, <<"U+6771">>)
    /\ Len(raw.rule.disp) > 4

(***************************************************************************)
(* C9: for every accepted document has_aka is false when the four aka      *)
(* fields sum to 0 and true when their mathematical sum is positive, and   *)
(* the sum does not abort.  (The code adds in the fields' 8-bit type.)     *)
(***************************************************************************)
C9_HasAkaIsMathSum ==
    /\ pc # "panicked"
    /\ pc \in {"loop", "done", "filtered"} => has_aka = (MathAkaSum > 0)
    /\ ret = "Ok" => log.has_aka = (MathAkaSum > 0)

(***************************************************************************)
(* C10: in every HoraDetail of a returned Log, who and target are the      *)
(* first and second entries of the source seat descriptor, which are       *)
(* non-negative integers of 8 bits.  (The code stores 0 for a negative or  *)
(* fractional number and the low 8 bits of a larger one.)                  *)
(***************************************************************************)
C10_SeatsAreSourceIntegers ==
    ret = "Ok" =>
        \A j \in 1..Len(raw.logs) :
            LET results == raw.logs[j].results
                es == kyokus[j].end_status
            IN  (WinOfPairs(results) /\ Len(es.details) = PairCount(results)) =>
                    \A p \in 1..PairCount(results) :
                        /\ IsSeatIndex(PairSeats(results, p).v[1])
                        /\ IsSeatIndex(PairSeats(results, p).v[2])
                        /\ es.details[p].who = PairSeats(results, p).v[1].v
                        /\ es.details[p].target = PairSeats(results, p).v[2].v

====
